---- MODULE Spec2Model ----
(***************************************************************************)
(* Component consolidation and text alignment of                           *)
(* prototypes/ui_semantic_patch/scripts/omni_vlm_fusion.py.                *)
(*                                                                         *)
(* A component and an operation are Python dicts: here, functions from     *)
(* key strings to values, a missing key being a key outside the DOMAIN.    *)
(* A text is a sequence of one-character strings, so that the digit runs   *)
(* of the regular expression \d{3,} are computed, not assumed.             *)
(***************************************************************************)
EXTENDS Integers, Sequences, FiniteSets, TLC

VARIABLES omni_components, operations, final_components, merge_log, fix_input, pc,
          filtered_result, image_size, stage2_raises, ui_json,
          attempt, requests_sent, call_state

vars == <<omni_components, operations, final_components, merge_log, fix_input, pc,
          filtered_result, image_size, stage2_raises, ui_json,
          attempt, requests_sent, call_state>>

\* The state of the retry loop of call_vlm_for_semantic_filter.
call_vars == <<attempt, requests_sent, call_state>>

\* The state of omni_vlm_fusion around the two functions above it.
fusion_vars == <<filtered_result, image_size, stage2_raises, ui_json>>

(***************************************************************************)
(* Bounds of the model.                                                    *)
(***************************************************************************)
NumRaw == 3
MaxOps == 2
MaxIdxLen == 2
MaxCoord == 1
NumFinal == 3
ShiftLen == 5

(***************************************************************************)
(* Python dict and list helpers.                                           *)
(***************************************************************************)
Get(d, k, default) == IF k \in DOMAIN d THEN d[k] ELSE default

Put(d, k, v) == [f \in (DOMAIN d) \cup {k} |-> IF f = k THEN v ELSE d[f]]

Range(s) == {s[i] : i \in DOMAIN s}

Min(S) == CHOOSE m \in S : \A o \in S : m <= o

Max(S) == CHOOSE m \in S : \A o \in S : m >= o

RECURSIVE Join(_, _)
Join(texts, sep) ==
    IF texts = <<>> THEN <<>>
    ELSE IF Len(texts) = 1 THEN texts[1]
    ELSE texts[1] \o sep \o Join(Tail(texts), sep)

Space == <<" ">>

DefaultKeepNote == "unprocessed, defaulted to keep"

(***************************************************************************)
(* omni_by_index = {comp.get('index', i): comp for i, comp in enumerate}   *)
(* The key of the component at (1-based) position p is its 'index', or     *)
(* p - 1 without one; a later component with the same key replaces an      *)
(* earlier one, and the keys keep the order of their first insertion.      *)
(***************************************************************************)
KeyAt(omni, p) == Get(omni[p], "index", p - 1)

OmniKeys(omni) == {KeyAt(omni, p) : p \in DOMAIN omni}

omni_by_index(omni) ==
    [k \in OmniKeys(omni) |->
        omni[Max({p \in DOMAIN omni : KeyAt(omni, p) = k})]]

RECURSIVE KeyOrderFrom(_, _, _)
KeyOrderFrom(omni, p, seen) ==
    IF p > Len(omni) THEN <<>>
    ELSE IF KeyAt(omni, p) \in seen THEN KeyOrderFrom(omni, p + 1, seen)
    ELSE <<KeyAt(omni, p)>> \o KeyOrderFrom(omni, p + 1, seen \cup {KeyAt(omni, p)})

KeyOrder(omni) == KeyOrderFrom(omni, 1, {})

(***************************************************************************)
(* The merge branch of apply_vlm_operations.                               *)
(***************************************************************************)
SourceComps(byidx, indices) ==
    LET present == SelectSeq(indices, LAMBDA i : i \in DOMAIN byidx)
    IN  [p \in DOMAIN present |-> byidx[present[p]]]

\* Mutant: the width and height of the widest and tallest source, not of the span.
UnionBounds_widest(source_comps) ==
    [x |-> Min({c.bounds.x : c \in Range(source_comps)}),
     y |-> Min({c.bounds.y : c \in Range(source_comps)}),
     width |-> Max({c.bounds.width : c \in Range(source_comps)}),
     height |-> Max({c.bounds.height : c \in Range(source_comps)})]

UnionBounds(source_comps) ==
    LET min_x == Min({c.bounds.x : c \in Range(source_comps)})
        min_y == Min({c.bounds.y : c \in Range(source_comps)})
        max_x == Max({c.bounds.x + c.bounds.width : c \in Range(source_comps)})
        max_y == Max({c.bounds.y + c.bounds.height : c \in Range(source_comps)})
    IN  [x |-> min_x, y |-> min_y, width |-> max_x - min_x, height |-> max_y - min_y]

\* Mutant: the source texts joined without the space.
JoinedTexts_nospace(source_comps) ==
    LET withText == SelectSeq(source_comps, LAMBDA c : Get(c, "text", <<>>) # <<>>)
    IN  Join([p \in DOMAIN withText |-> Get(withText[p], "text", <<>>)], <<>>)

JoinedTexts(source_comps) ==
    LET withText == SelectSeq(source_comps, LAMBDA c : Get(c, "text", <<>>) # <<>>)
    IN  Join([p \in DOMAIN withText |-> Get(withText[p], "text", <<>>)], Space)

\* Mutant: the planner's target_text is ignored.
MergedComp_joinalways(op, source_comps, at) ==
    [index |-> at,
     class |-> Get(op, "target_class", "Card"),
     bounds |-> UnionBounds(source_comps),
     text |-> JoinedTexts(source_comps),
     clickable |-> \E c \in Range(source_comps) : Get(c, "clickable", FALSE),
     source_indices |-> op.indices,
     note |-> Get(op, "reason", "")]

MergedComp(op, source_comps, at) ==
    [index |-> at,
     class |-> Get(op, "target_class", "Card"),
     bounds |-> UnionBounds(source_comps),
     text |-> Get(op, "target_text", JoinedTexts(source_comps)),
     clickable |-> \E c \in Range(source_comps) : Get(c, "clickable", FALSE),
     source_indices |-> op.indices,
     note |-> Get(op, "reason", "")]

MergeOp(st, op, byidx) ==
    LET source_comps == SourceComps(byidx, op.indices)
        at == Len(st.final)
    IN  IF source_comps = <<>> THEN st
        ELSE [final |-> Append(st.final, MergedComp(op, source_comps, at)),
              log |-> Append(st.log, [action |-> "merge", from |-> op.indices,
                                      to |-> at, reason |-> Get(op, "reason", "")]),
              processed |-> st.processed \cup Range(op.indices)]

(***************************************************************************)
(* The delete and keep branches.                                           *)
(***************************************************************************)
DeleteOp(st, op) ==
    [st EXCEPT !.log = Append(@, [action |-> "delete", indices |-> op.indices,
                                  reason |-> Get(op, "reason", "")]),
               !.processed = @ \cup Range(op.indices)]

KeepOne(st, idx, byidx) ==
    IF idx \in DOMAIN byidx /\ idx \notin st.processed
    THEN [st EXCEPT !.final = Append(@, Put(Put(byidx[idx], "index", Len(st.final)),
                                            "original_index", idx)),
                    !.processed = @ \cup {idx}]
    ELSE st

RECURSIVE KeepOp(_, _, _)
KeepOp(st, indices, byidx) ==
    IF indices = <<>> THEN st
    ELSE KeepOp(KeepOne(st, Head(indices), byidx), Tail(indices), byidx)

ApplyOp(st, op, byidx) ==
    LET action == Get(op, "action", "")
        indices == Get(op, "indices", <<>>)
    IN  IF action = "merge" /\ indices # <<>> THEN MergeOp(st, op, byidx)
        ELSE IF action = "delete" /\ indices # <<>> THEN DeleteOp(st, op)
        ELSE IF action = "keep" /\ indices # <<>> THEN KeepOp(st, indices, byidx)
        ELSE st

RECURSIVE ApplyOps(_, _, _)
ApplyOps(st, ops, byidx) ==
    IF ops = <<>> THEN st
    ELSE ApplyOps(ApplyOp(st, Head(ops), byidx), Tail(ops), byidx)

(***************************************************************************)
(* The components no operation covered are kept by default.                *)
(***************************************************************************)
\* Mutant: the test on processed_indices inverted.
DefaultKeepOne_inverted(st, idx, byidx) ==
    IF idx \in st.processed
    THEN [st EXCEPT !.final =
            Append(@, Put(Put(Put(byidx[idx], "index", Len(st.final)),
                              "original_index", idx),
                          "note", DefaultKeepNote))]
    ELSE st

\* Mutant: the default keep forgets its note.
DefaultKeepOne_nonote(st, idx, byidx) ==
    IF idx \notin st.processed
    THEN [st EXCEPT !.final =
            Append(@, Put(Put(byidx[idx], "index", Len(st.final)),
                          "original_index", idx))]
    ELSE st

DefaultKeepOne(st, idx, byidx) ==
    IF idx \notin st.processed
    THEN [st EXCEPT !.final =
            Append(@, Put(Put(Put(byidx[idx], "index", Len(st.final)),
                              "original_index", idx),
                          "note", DefaultKeepNote))]
    ELSE st

RECURSIVE DefaultKeep(_, _, _)
DefaultKeep(st, keys, byidx) ==
    IF keys = <<>> THEN st
    ELSE DefaultKeep(DefaultKeepOne(st, Head(keys), byidx), Tail(keys), byidx)

(***************************************************************************)
(* final_components.sort(key=(bounds.y, bounds.x)): Python's sort is       *)
(* stable, so a component goes after every earlier one whose key is not    *)
(* greater than its own.  Then the indices are reassigned.                 *)
(***************************************************************************)
\* Mutant: the sort key is (x, y).
KeyLeq_xy(a, b) ==
    \/ a.bounds.x < b.bounds.x
    \/ a.bounds.x = b.bounds.x /\ a.bounds.y <= b.bounds.y

KeyLeq(a, b) ==
    \/ a.bounds.y < b.bounds.y
    \/ a.bounds.y = b.bounds.y /\ a.bounds.x <= b.bounds.x

RECURSIVE InsertSorted(_, _)
InsertSorted(sorted, c) ==
    IF sorted = <<>> THEN <<c>>
    ELSE IF KeyLeq(Head(sorted), c)
         THEN <<Head(sorted)>> \o InsertSorted(Tail(sorted), c)
         ELSE <<c>> \o sorted

RECURSIVE SortFrom(_, _)
SortFrom(sorted, rest) ==
    IF rest = <<>> THEN sorted
    ELSE SortFrom(InsertSorted(sorted, Head(rest)), Tail(rest))

SortByPosition(comps) == SortFrom(<<>>, comps)

Reindex(comps) == [p \in DOMAIN comps |-> Put(comps[p], "index", p - 1)]

apply_vlm_operations(ops, omni) ==
    LET byidx == omni_by_index(omni)
        looped == ApplyOps([final |-> <<>>, log |-> <<>>, processed |-> {}], ops, byidx)
        kept == DefaultKeep(looped, KeyOrder(omni), byidx)
    IN  [final_components |-> Reindex(SortByPosition(kept.final)),
         merge_log |-> kept.log]

(***************************************************************************)
(* validate_and_fix_text_assignments.                                      *)
(*                                                                         *)
(* extract_nums is re.findall(r'\d{3,}', text) as a set: the greedy        *)
(* pattern takes each maximal run of digits, if it has three or more.      *)
(* Positions are 1-based here: position p holds the code's index p - 1.    *)
(***************************************************************************)
Digits == {"0", "1", "2", "3", "4", "5", "6", "7", "8", "9"}

Whitespace == {" ", "\t", "\n", "\r"}

RunIfLong(run) == IF Len(run) >= 3 THEN {run} ELSE {}

RECURSIVE DigitRuns(_, _, _)
DigitRuns(text, i, run) ==
    IF i > Len(text) THEN RunIfLong(run)
    ELSE IF text[i] \in Digits THEN DigitRuns(text, i + 1, Append(run, text[i]))
    ELSE RunIfLong(run) \cup DigitRuns(text, i + 1, <<>>)

extract_nums(text) == DigitRuns(text, 1, <<>>)

\* new_text.strip() is empty
IsBlank(text) == \A i \in DOMAIN text : text[i] \in Whitespace

get_source_ocr(comp, omni_map) ==
    LET given == Get(comp, "source_indices", <<>>)
        idx == Get(comp, "original_index", -1)
        indices == IF given # <<>> THEN given
                   ELSE IF idx >= 0 THEN <<idx>> ELSE <<>>
        usable == SelectSeq(indices,
                      LAMBDA i : /\ i \in DOMAIN omni_map
                                 /\ Get(omni_map[i], "text", <<>>) # <<>>)
    IN  Join([p \in DOMAIN usable |-> Get(omni_map[usable[p]], "text", <<>>)], Space)

VlmTexts(final) == [p \in DOMAIN final |-> Get(final[p], "text", <<>>)]

NumsOf(texts) == [p \in DOMAIN texts |-> extract_nums(texts[p])]

OcrTexts(final, omni_map) == [p \in DOMAIN final |-> get_source_ocr(final[p], omni_map)]

\* Step 1: the score of a shift, and the best of 0, 1, -1, 2, -2 in that order.
score_shift(vn, on, shift) ==
    LET n == Len(vn)
        paired == {p \in 1..n : /\ p + shift \in 1..n
                                /\ vn[p] # {}
                                /\ on[p + shift] # {}}
        matches == Cardinality({p \in paired : vn[p] \cap on[p + shift] # {}})
        conflicts == Cardinality({p \in paired : vn[p] \cap on[p + shift] = {}})
    IN  matches - conflicts

ShiftCandidates == <<1, -1, 2, -2>>

RECURSIVE BestOf(_, _, _, _)
BestOf(vn, on, best, rest) ==
    IF rest = <<>> THEN best
    ELSE LET score == score_shift(vn, on, Head(rest))
         IN  IF score > best.score
             THEN BestOf(vn, on, [shift |-> Head(rest), score |-> score], Tail(rest))
             ELSE BestOf(vn, on, best, Tail(rest))

\* Mutant: a non-zero shift that ties with the best score is taken.
best_shift_ties(vn, on) ==
    LET top == Max({score_shift(vn, on, s) : s \in {0} \cup Range(ShiftCandidates)})
        hits == {k \in DOMAIN ShiftCandidates :
                    score_shift(vn, on, ShiftCandidates[k]) = top}
    IN  IF hits = {} THEN 0 ELSE ShiftCandidates[Min(hits)]

best_shift(vn, on) ==
    BestOf(vn, on, [shift |-> 0, score |-> score_shift(vn, on, 0)], ShiftCandidates).shift

\* Step 2: the affected range, from the confirmed conflicts backward.
\* Mutant: a component without OCR tokens counts as a conflict.
ConflictAt_anyocr(vn, on, p) == vn[p] # {} /\ vn[p] \cap on[p] = {}

ConflictAt(vn, on, p) == vn[p] # {} /\ on[p] # {} /\ vn[p] \cap on[p] = {}

MatchAt(vn, on, p) == vn[p] # {} /\ on[p] # {} /\ vn[p] \cap on[p] # {}

Conflicts(vn, on) == {p \in DOMAIN vn : ConflictAt(vn, on, p)}

Abs(k) == IF k < 0 THEN -k ELSE k

RECURSIVE ExpandStart(_, _, _, _, _, _)
ExpandStart(vn, on, origin, k, last, start) ==
    IF k > last THEN start
    ELSE IF origin - k < 1 THEN start
    ELSE IF MatchAt(vn, on, origin - k) THEN start
    ELSE ExpandStart(vn, on, origin, k + 1, last, origin - k)

\* Mutant: the range is never extended backward.
range_start_noexpand(vn, on, shift) == Min(Conflicts(vn, on))

range_start(vn, on, shift) ==
    LET origin == Min(Conflicts(vn, on))
    IN  ExpandStart(vn, on, origin, 1, Abs(shift) * 2, origin)

\* Mutant: the range runs on to the last component.
range_end_tail(vn, on) == Len(vn)

range_end(vn, on) == Max(Conflicts(vn, on))

\* Step 3: the rotation of the texts inside the range.
ShiftTag(shift) ==
    CASE shift = 1 -> "shift_1"
      [] shift = -1 -> "shift_-1"
      [] shift = 2 -> "shift_2"
      [] shift = -2 -> "shift_-2"

\* Mutant: a fixed component is written back as a plain text component.
Retexted_reclassed(comp, new_text, shift) ==
    IF comp.text # new_text
    THEN Put(Put(Put(Put(comp, "_text_before_fix", comp.text), "text", new_text),
                 "_text_fix", ShiftTag(shift)), "class", "text")
    ELSE comp

\* Mutant: the text is replaced without a record of the fix.
Retexted_nolog(comp, new_text, shift) == Put(comp, "text", new_text)

Retexted(comp, new_text, shift) ==
    IF comp.text # new_text
    THEN Put(Put(Put(comp, "_text_before_fix", comp.text), "text", new_text),
             "_text_fix", ShiftTag(shift))
    ELSE comp

\* Mutant: every text of the range is taken from the component's own OCR text.
FixAt_ownocr(comp, p, lo, hi, shift, vlm_texts, ocr_texts) ==
    IF IsBlank(ocr_texts[p]) THEN Put(comp, "_text_unverified", TRUE)
    ELSE Retexted(comp, ocr_texts[p], shift)

\* Mutant: at the edge of the range a blank OCR text is written all the same.
FixAt_guess(comp, p, lo, hi, shift, vlm_texts, ocr_texts) ==
    IF p - shift \in lo..hi
    THEN Retexted(comp, vlm_texts[p - shift], shift)
    ELSE Retexted(comp, ocr_texts[p], shift)

\* Mutant: the texts are rotated the wrong way.
FixAt_forward(comp, p, lo, hi, shift, vlm_texts, ocr_texts) ==
    IF p + shift \in lo..hi
    THEN Retexted(comp, vlm_texts[p + shift], shift)
    ELSE IF IsBlank(ocr_texts[p]) THEN Put(comp, "_text_unverified", TRUE)
         ELSE Retexted(comp, ocr_texts[p], shift)

FixAt(comp, p, lo, hi, shift, vlm_texts, ocr_texts) ==
    IF p - shift \in lo..hi
    THEN Retexted(comp, vlm_texts[p - shift], shift)
    ELSE IF IsBlank(ocr_texts[p]) THEN Put(comp, "_text_unverified", TRUE)
         ELSE Retexted(comp, ocr_texts[p], shift)

\* Mutant: lists of fewer than 3 components are validated like any other.
validate_and_fix_text_assignments_anylength(final, omni) ==
    LET vlm_texts == VlmTexts(final)
        ocr_texts == OcrTexts(final, omni_by_index(omni))
        vn == NumsOf(vlm_texts)
        on == NumsOf(ocr_texts)
        shift == best_shift(vn, on)
    IN  IF shift = 0 THEN final
        ELSE IF Conflicts(vn, on) = {} THEN final
        ELSE LET lo == range_start(vn, on, shift)
                 hi == range_end(vn, on)
             IN  [p \in DOMAIN final |->
                     IF p \in lo..hi
                     THEN FixAt(final[p], p, lo, hi, shift, vlm_texts, ocr_texts)
                     ELSE final[p]]

validate_and_fix_text_assignments(final, omni) ==
    IF Len(final) < 3 THEN final
    ELSE LET vlm_texts == VlmTexts(final)
             ocr_texts == OcrTexts(final, omni_by_index(omni))
             vn == NumsOf(vlm_texts)
             on == NumsOf(ocr_texts)
             shift == best_shift(vn, on)
         IN  IF shift = 0 THEN final
             ELSE IF Conflicts(vn, on) = {} THEN final
             ELSE LET lo == range_start(vn, on, shift)
                      hi == range_end(vn, on)
                  IN  [p \in DOMAIN final |->
                          IF p \in lo..hi
                          THEN FixAt(final[p], p, lo, hi, shift, vlm_texts, ocr_texts)
                          ELSE final[p]]

(***************************************************************************)
(* fix_component_bounds (the path of a planner that answers with whole     *)
(* components).  img_width * 1.1 is compared in integers, 10 * v > 11 * w, *)
(* and int(v * (img_width / 768.0)) is (v * img_width) \div 768 for the    *)
(* non-negative coordinates and the image widths used here, for which      *)
(* img_width / 768.0 is a binary fraction.                                 *)
(***************************************************************************)
TolNum == 11
TolDen == 10
RefWidth == 768
ScaleLimit == 800

EmptyDict == [k \in {} |-> 0]

\* Mutant: the 10% tolerance is left out.
coords_invalid_strict(bounds, img_width, img_height) ==
    LET x == Get(bounds, "x", 0)
        y == Get(bounds, "y", 0)
        w == Get(bounds, "width", 0)
        h == Get(bounds, "height", 0)
    IN  x + w > img_width \/ y + h > img_height

coords_invalid(bounds, img_width, img_height) ==
    LET x == Get(bounds, "x", 0)
        y == Get(bounds, "y", 0)
        w == Get(bounds, "width", 0)
        h == Get(bounds, "height", 0)
    IN  \/ TolDen * (x + w) > TolNum * img_width
        \/ TolDen * (y + h) > TolNum * img_height
        \/ w > img_width
        \/ h > img_height

RecomputedBounds_first(source_comps) == source_comps[1].bounds

RecomputedBounds(source_comps) ==
    LET S == Range(source_comps)
        min_x == Min({c.bounds.x : c \in S})
        min_y == Min({c.bounds.y : c \in S})
        max_x == Max({c.bounds.x + c.bounds.width : c \in S})
        max_y == Max({c.bounds.y + c.bounds.height : c \in S})
    IN  [x |-> min_x, y |-> min_y, width |-> max_x - min_x, height |-> max_y - min_y]

\* Python's `a in b` on strings.
IsSubstring(a, b) ==
    \E i \in 0..(Len(b) - Len(a)) : SubSeq(b, i + 1, i + Len(a)) = a

ExactMatches(omni, comp_text) ==
    {p \in DOMAIN omni : Get(omni[p], "text", <<>>) = comp_text /\ comp_text # <<>>}

FuzzyMatches(omni, comp_text) ==
    {p \in DOMAIN omni :
        LET orig_text == Get(omni[p], "text", <<>>)
        IN  /\ orig_text # <<>>
            /\ IsSubstring(orig_text, comp_text) \/ IsSubstring(comp_text, orig_text)}

MatchedPos_fuzzyfirst(omni, comp_text) ==
    IF comp_text # <<>> /\ FuzzyMatches(omni, comp_text) # {}
    THEN Min(FuzzyMatches(omni, comp_text))
    ELSE 0

\* The position in omni_components of `matched`, 0 for None.
MatchedPos(omni, comp_text) ==
    IF ExactMatches(omni, comp_text) # {}
    THEN Min(ExactMatches(omni, comp_text))
    ELSE IF comp_text # <<>> /\ FuzzyMatches(omni, comp_text) # {}
    THEN Min(FuzzyMatches(omni, comp_text))
    ELSE 0

ScaledBounds(bounds, img_width) ==
    [x |-> (Get(bounds, "x", 0) * img_width) \div RefWidth,
     y |-> (Get(bounds, "y", 0) * img_width) \div RefWidth,
     width |-> (Get(bounds, "width", 0) * img_width) \div RefWidth,
     height |-> (Get(bounds, "height", 0) * img_width) \div RefWidth]

\* Lines 276-309: the component has no source component to take bounds from.
RecoverBounds(comp, omni, img_width, img_height) ==
    LET bounds == Get(comp, "bounds", EmptyDict)
        x == Get(bounds, "x", 0)
        w == Get(bounds, "width", 0)
        matched == MatchedPos(omni, Get(comp, "text", <<>>))
    IN  IF ~coords_invalid(bounds, img_width, img_height) THEN comp
        ELSE IF matched # 0
        THEN Put(Put(comp, "bounds", omni[matched].bounds),
                 "_bounds_source", "matched_from_omni")
        ELSE IF w > 0 /\ x + w <= ScaleLimit
        THEN Put(Put(comp, "bounds", ScaledBounds(bounds, img_width)),
                 "_bounds_source", "scaled_from_768")
        ELSE comp

FixBounds(comp, omni, byidx, img_width, img_height) ==
    LET source_indices == Get(comp, "source_indices", <<>>)
        source_comps == SourceComps(byidx, source_indices)
    IN  IF source_indices # <<>> /\ source_comps # <<>>
        THEN Put(comp, "bounds", RecomputedBounds(source_comps))
        ELSE RecoverBounds(comp, omni, img_width, img_height)

fix_component_bounds(vlm_components, omni, img_width, img_height) ==
    LET byidx == omni_by_index(omni)
    IN  [p \in DOMAIN vlm_components |->
            FixBounds(vlm_components[p], omni, byidx, img_width, img_height)]

(***************************************************************************)
(* omni_vlm_fusion, Stage 2 and the result.  stage2_raises names the step  *)
(* of Stage 2 that raises when it is reached ("none": no step raises);     *)
(* whatever raised, the except clause of line 651 takes over.              *)
(***************************************************************************)
Fallback_reversed(omni) ==
    [final_components |-> [p \in DOMAIN omni |-> omni[Len(omni) + 1 - p]],
     merge_log |-> <<>>, raised |-> TRUE]

Fallback(omni) == [final_components |-> omni, merge_log |-> <<>>, raised |-> TRUE]

OperationsPath(fr, omni, raises) ==
    IF raises \in {"apply", "validate"} THEN Fallback(omni)
    ELSE LET r == apply_vlm_operations(Get(fr, "operations", <<>>), omni)
         IN  [final_components |->
                  validate_and_fix_text_assignments(r.final_components, omni),
              merge_log |-> r.merge_log,
              raised |-> FALSE]

ComponentsPath(fr, omni, size, raises) ==
    IF raises \in {"fix_bounds", "validate"} THEN Fallback(omni)
    ELSE LET fixed == fix_component_bounds(Get(fr, "components", omni), omni,
                                           size.width, size.height)
         IN  [final_components |-> validate_and_fix_text_assignments(fixed, omni),
              merge_log |-> Get(fr, "merge_log", <<>>),
              raised |-> FALSE]

Stage2(fr, omni, size, raises) ==
    IF raises = "call" THEN Fallback(omni)
    ELSE IF "operations" \in DOMAIN fr THEN OperationsPath(fr, omni, raises)
    ELSE ComponentsPath(fr, omni, size, raises)

\* Mutant: the final indices start at 1.
ReindexFinal_from1(comps) == [p \in DOMAIN comps |-> Put(comps[p], "index", p)]

ReindexFinal(comps) == [p \in DOMAIN comps |-> Put(comps[p], "index", p - 1)]

BuildUiJson(final, log, omni, size) ==
    [metadata |->
        [resolution |-> size,
         processing |-> [omni_raw_count |-> Len(omni),
                         final_count |-> Len(final),
                         merge_log |-> log]],
     components |-> final,
     componentCount |-> Len(final)]

(***************************************************************************)
(* call_vlm_for_semantic_filter, the retry loop of lines 489-548.  What    *)
(* requests.post comes back with is an outcome: a response with a status   *)
(* and a body ("json": a body extract_json parses; "garbage": one it does  *)
(* not, or not JSON at all; "no_choices": JSON without choices[0].message),*)
(* a network error (ConnectionError, Timeout) or another RequestException. *)
(***************************************************************************)
max_retries == 5
base_wait == 5
max_wait == 60
last_wait == 30

RECURSIVE Pow2(_)
Pow2(n) == IF n = 0 THEN 1 ELSE 2 * Pow2(n - 1)

\* The seconds slept before the request of an attempt.
wait_time(a) == IF a > 0 THEN Min({base_wait * Pow2(a - 1), max_wait}) ELSE 0

\* response.raise_for_status()
RaisesForStatus(status) == status >= 400 /\ status < 600

\* Lines 502-518 and the except clauses of lines 520-545: what one pass of the
\* loop comes to.  "next": the loop goes on to the next attempt.
\* Mutant: the extra request is also sent when the last attempt fails otherwise.
AttemptVerdict_extraalways(outcome, a) ==
    LET last == a = max_retries - 1
    IN  IF outcome.kind = "network_error" THEN (IF last THEN "extra" ELSE "next")
        ELSE IF outcome.kind = "request_error" THEN (IF last THEN "extra" ELSE "next")
        ELSE IF outcome.status = 429 THEN "next"
        ELSE IF outcome.status >= 500 THEN "next"
        ELSE IF RaisesForStatus(outcome.status) THEN (IF last THEN "extra" ELSE "next")
        ELSE IF outcome.body = "json" THEN "return"
        ELSE IF outcome.body = "no_choices" THEN "raise"
        ELSE IF last THEN "extra" ELSE "next"

AttemptVerdict(outcome, a) ==
    LET last == a = max_retries - 1
    IN  IF outcome.kind = "network_error" THEN (IF last THEN "extra" ELSE "next")
        ELSE IF outcome.kind = "request_error" THEN (IF last THEN "raise" ELSE "next")
        ELSE IF outcome.status = 429 THEN "next"
        ELSE IF outcome.status >= 500 THEN "next"
        ELSE IF RaisesForStatus(outcome.status) THEN (IF last THEN "raise" ELSE "next")
        ELSE IF outcome.body = "json" THEN "return"
        ELSE IF outcome.body = "no_choices" THEN "raise"
        ELSE IF last THEN "raise" ELSE "next"

\* Lines 526-534: the one request after the last attempt's network error.
ExtraVerdict(outcome) ==
    IF /\ outcome.kind = "response"
       /\ ~RaisesForStatus(outcome.status)
       /\ outcome.body = "json"
    THEN "return"
    ELSE "raise"

Sent(a, wait, outcome) == [attempt |-> a, wait |-> wait, outcome |-> outcome]

(***************************************************************************)
(* Inputs.  Texts are spelled out character by character.                  *)
(***************************************************************************)
T_dollar == <<"$">>
T_199 == <<"1", "9", "9">>
T_buy == <<"B", "u", "y">>
T_empty == <<>>

Boxes == [x : 0..MaxCoord, y : 0..MaxCoord, width : 1..2, height : 1..2]

UnitBoxes == {b \in Boxes : b.width = 1 /\ b.height = 1}

RawKinds ==
    << [class |-> "text", text |-> T_dollar, clickable |-> FALSE],
       [class |-> "text", text |-> T_199, clickable |-> FALSE],
       [class |-> "icon", text |-> T_empty, clickable |-> TRUE],
       [class |-> "text", text |-> T_buy, clickable |-> TRUE] >>

KindAt(p) == RawKinds[((p - 1) % Len(RawKinds)) + 1]

RawComp(i, kind, box) ==
    [index |-> i, class |-> kind.class, bounds |-> box, text |-> kind.text,
     clickable |-> kind.clickable]

RawFrom(boxes) == [p \in DOMAIN boxes |-> RawComp(p - 1, KindAt(p), boxes[p])]

\* The detector (omni_extractor.omni_to_ui_json) hands its components over
\* sorted by (y, x) and indexed by position.
InReadingOrder(comps) ==
    \A p \in DOMAIN comps : \A q \in DOMAIN comps :
        p < q =>
            \/ comps[p].bounds.y < comps[q].bounds.y
            \/ /\ comps[p].bounds.y = comps[q].bounds.y
               /\ comps[p].bounds.x <= comps[q].bounds.x

IndexLists == UNION {[1..n -> 0..NumRaw] : n \in 1..MaxIdxLen}

Operations ==
    {[action |-> a, indices |-> l, reason |-> "r"] :
        a \in {"merge", "delete", "keep"}, l \in IndexLists}
    \cup {[action |-> "merge", indices |-> l, reason |-> "m", target_text |-> T_buy,
           target_class |-> "Label"] : l \in IndexLists}
    \cup {[action |-> "merge", indices |-> <<>>, reason |-> "r"],
          [action |-> "skip", indices |-> <<0>>, reason |-> "r"]}

\* No call of the planner is under way.
NoCall ==
    /\ attempt = 0
    /\ requests_sent = <<>>
    /\ call_state = "idle"

\* The planner has not answered and nothing is returned yet.
NoFusion ==
    /\ NoCall
    /\ filtered_result = [page_analysis |-> "none"]
    /\ image_size = [width |-> 0, height |-> 0]
    /\ stage2_raises = "none"
    /\ ui_json = [componentCount |-> 0]

Idle ==
    /\ NoFusion
    /\ final_components = <<>>
    /\ merge_log = <<>>
    /\ fix_input = <<>>
    /\ pc = "start"

(***************************************************************************)
(* Spec: apply_vlm_operations on the detector's output (sorted, indexed by *)
(* position) under every operation list of at most MaxOps operations.      *)
(***************************************************************************)
Init ==
    /\ \E boxes \in [1..NumRaw -> UnitBoxes] :
          /\ omni_components = RawFrom(boxes)
          /\ InReadingOrder(omni_components)
    /\ \E n \in 0..MaxOps : operations \in [1..n -> Operations]
    /\ Idle

ApplyVlmOperations ==
    /\ pc = "start"
    /\ LET r == apply_vlm_operations(operations, omni_components)
       IN  /\ final_components' = r.final_components
           /\ merge_log' = r.merge_log
    /\ pc' = "applied"
    /\ UNCHANGED <<omni_components, operations, fix_input>>
    /\ UNCHANGED fusion_vars
    /\ UNCHANGED call_vars

Next == ApplyVlmOperations

Spec == Init /\ [][Next]_vars

(***************************************************************************)
(* SpecGeom: apply_vlm_operations as a function of any raw list (in any    *)
(* order, boxes of every size) under no operation or one merge.            *)
(***************************************************************************)
GeomOperations ==
    {<<>>} \cup {<<[action |-> "merge", indices |-> l, reason |-> "r"]>> : l \in IndexLists}

InitGeom ==
    /\ \E boxes \in [1..NumRaw -> Boxes] : omni_components = RawFrom(boxes)
    /\ operations \in GeomOperations
    /\ Idle

SpecGeom == InitGeom /\ [][ApplyVlmOperations]_vars

(***************************************************************************)
(* SpecE2E: the four components "$", "199", icon, "Buy" at every place,    *)
(* under the single operation merge(indices=[0,1], target_class="Label").  *)
(***************************************************************************)
E2EOperations ==
    << [action |-> "merge", indices |-> <<0, 1>>, target_class |-> "Label",
        reason |-> "price"] >>

InitE2E ==
    /\ \E boxes \in [1..Len(RawKinds) -> Boxes] :
          /\ boxes[3] \in UnitBoxes
          /\ boxes[4] \in UnitBoxes
          /\ omni_components = RawFrom(boxes)
    /\ operations = E2EOperations
    /\ Idle

SpecE2E == InitE2E /\ [][ApplyVlmOperations]_vars

(***************************************************************************)
(* SpecValidate: validate_and_fix_text_assignments on NumFinal final       *)
(* components, one per raw component, the first few merged                 *)
(* (source_indices) and the rest kept (original_index), with every planner *)
(* text of ValTexts over every OCR text of OcrTextsIn.                     *)
(***************************************************************************)
T_200 == <<"2", "0", "0">>
T_1990_12 == <<"1", "9", "9", "0", " ", "1", "2">>
T_300 == <<"3", "0", "0">>

ValTexts == {T_empty, T_199, T_200, T_1990_12}

OcrTextsIn == {T_empty, T_199, T_200}

RowBox(p) == [x |-> 0, y |-> p - 1, width |-> 1, height |-> 1]

OcrComp(p, text) ==
    [index |-> p - 1, class |-> "text", bounds |-> RowBox(p), text |-> text,
     clickable |-> FALSE]

KeptComp(p, text) == Put(OcrComp(p, text), "original_index", p - 1)

PlannedComp(p, text, merged) ==
    IF merged
    THEN [index |-> p - 1, class |-> "Card", bounds |-> RowBox(p), text |-> text,
          clickable |-> FALSE, source_indices |-> <<p - 1>>, note |-> "m"]
    ELSE KeptComp(p, text)

Planned ==
    /\ NoFusion
    /\ merge_log = <<>>
    /\ operations = <<>>
    /\ fix_input = <<>>
    /\ pc = "applied"

InitValidate ==
    /\ \E ocr \in [1..NumFinal -> OcrTextsIn] :
          omni_components = [p \in 1..NumFinal |-> OcrComp(p, ocr[p])]
    /\ \E vlm \in [1..NumFinal -> ValTexts], m \in 0..NumFinal :
          final_components = [p \in 1..NumFinal |-> PlannedComp(p, vlm[p], p <= m)]
    /\ Planned

ValidateAndFix ==
    /\ pc = "applied"
    /\ fix_input' = final_components
    /\ final_components' =
          validate_and_fix_text_assignments(final_components, omni_components)
    /\ pc' = "validated"
    /\ UNCHANGED <<omni_components, operations, merge_log>>
    /\ UNCHANGED fusion_vars
    /\ UNCHANGED call_vars

SpecValidate == InitValidate /\ [][ValidateAndFix]_vars

(***************************************************************************)
(* SpecShift: ShiftLen kept components whose texts are shifted by one:     *)
(* position i shows the text that belongs at i + 1 (the OCR text of raw    *)
(* component i + 1); the last position shows any text.                     *)
(***************************************************************************)
ShiftTexts == {T_empty, T_buy, T_199, T_200, T_300}

InitShift ==
    /\ \E truth \in [1..ShiftLen -> ShiftTexts], last \in ShiftTexts :
          /\ omni_components = [p \in 1..ShiftLen |-> OcrComp(p, truth[p])]
          /\ final_components =
                [p \in 1..ShiftLen |->
                    KeptComp(p, IF p < ShiftLen THEN truth[p + 1] ELSE last)]
    /\ Planned

SpecShift == InitShift /\ [][ValidateAndFix]_vars

(***************************************************************************)
(* SpecBounds: fix_component_bounds on one planner component of every      *)
(* shape (bounds that fit the image, bounds that do not and can or cannot  *)
(* be scaled; source_indices absent, empty, resolvable or not) over raw    *)
(* components of every text of RawTextsIn.                                 *)
(***************************************************************************)
ImageSizes == {[width |-> 384, height |-> 800], [width |-> 1536, height |-> 800]}

RawTextsIn == {T_199, T_1990_12, T_buy}

PlannedTexts == {T_empty, T_199, T_1990_12, T_dollar}

PlannedBounds ==
    {[x |-> 0, y |-> 0, width |-> 1, height |-> 1],
     [x |-> 0, y |-> 0, width |-> 500, height |-> 10],
     [x |-> 900, y |-> 0, width |-> 1000, height |-> 10],
     [x |-> 0, y |-> 0, width |-> 0, height |-> 2000],
     [x |-> 10, y |-> 900, width |-> 700, height |-> 10],
     [x |-> 20, y |-> 0, width |-> 380, height |-> 10],
     [x |-> 0, y |-> 0, width |-> 400, height |-> 10]}

PlannedSources == {<<>>, <<0>>, <<0, 2>>, <<7>>, <<1, 7>>}

PlannerComp(text, bounds) ==
    [index |-> 0, class |-> "Card", text |-> text, bounds |-> bounds]

PlannerComps ==
    LET plain == {PlannerComp(t, b) : t \in PlannedTexts, b \in PlannedBounds}
    IN  plain
        \cup {Put(c, "source_indices", l) : c \in plain, l \in PlannedSources}
        \cup {[index |-> 0, class |-> "Card"]}

Waiting ==
    /\ NoCall
    /\ operations = <<>>
    /\ final_components = <<>>
    /\ merge_log = <<>>
    /\ fix_input = <<>>
    /\ ui_json = [componentCount |-> 0]
    /\ pc = "start"

InitBounds ==
    /\ \E t \in [1..NumRaw -> RawTextsIn] :
          omni_components = [p \in 1..NumRaw |-> OcrComp(p, t[p])]
    /\ \E c \in PlannerComps :
          filtered_result = [page_analysis |-> "p", components |-> <<c>>]
    /\ image_size \in ImageSizes
    /\ stage2_raises = "none"
    /\ Waiting

FixComponentBounds ==
    /\ pc = "start"
    /\ final_components' =
          fix_component_bounds(filtered_result.components, omni_components,
                               image_size.width, image_size.height)
    /\ pc' = "fixed"
    /\ UNCHANGED <<omni_components, operations, merge_log, fix_input>>
    /\ UNCHANGED fusion_vars
    /\ UNCHANGED call_vars

SpecBounds == InitBounds /\ [][FixComponentBounds]_vars

(***************************************************************************)
(* SpecFusion: omni_vlm_fusion from the planner's answer on: an answer     *)
(* with operations, one with components (with or without a merge_log), one *)
(* with neither key, and every step of Stage 2 that may raise.             *)
(***************************************************************************)
FusionOperations ==
    {<<>>,
     <<[action |-> "merge", indices |-> <<0, 1>>, reason |-> "r"]>>,
     <<[action |-> "merge", indices |-> <<0, 2>>, reason |-> "r"]>>,
     <<[action |-> "delete", indices |-> <<2>>, reason |-> "r"]>>,
     <<[action |-> "keep", indices |-> <<1>>, reason |-> "r"]>>}

FusionComps ==
    LET plain == {PlannerComp(t, b) :
                     t \in {T_199, T_buy},
                     b \in UnitBoxes \cup {[x |-> 900, y |-> 0, width |-> 1000,
                                            height |-> 10]}}
    IN  plain \cup {Put(c, "source_indices", <<1>>) : c \in plain}

FusionCompLists == UNION {[1..n -> FusionComps] : n \in 1..2}

PlannerLog == <<[action |-> "merge", reason |-> "planner"]>>

FusionReplies ==
    {[page_analysis |-> "p", operations |-> ops] : ops \in FusionOperations}
    \cup {[page_analysis |-> "p", components |-> l] : l \in FusionCompLists}
    \cup {[page_analysis |-> "p", components |-> l, merge_log |-> PlannerLog] :
             l \in FusionCompLists}
    \cup {[page_analysis |-> "p"]}

Raises == {"none", "call", "apply", "fix_bounds", "validate"}

InitFusion ==
    /\ \E boxes \in [1..NumRaw -> UnitBoxes] :
          /\ omni_components = RawFrom(boxes)
          /\ InReadingOrder(omni_components)
    /\ filtered_result \in FusionReplies
    /\ image_size = [width |-> 384, height |-> 800]
    /\ stage2_raises \in Raises
    /\ Waiting

\* final_components = omni_components in the except clause makes the two
\* names one list, so the reindexing of line 658 writes the raw components.
OmniVlmFusion ==
    /\ pc = "start"
    /\ LET r == Stage2(filtered_result, omni_components, image_size, stage2_raises)
           final == ReindexFinal(r.final_components)
       IN  /\ final_components' = final
           /\ merge_log' = r.merge_log
           /\ omni_components' = IF r.raised THEN final ELSE omni_components
           /\ ui_json' = BuildUiJson(final, r.merge_log, omni_components', image_size)
    /\ pc' = "returned"
    /\ UNCHANGED <<operations, fix_input, filtered_result, image_size, stage2_raises>>
    /\ UNCHANGED call_vars

SpecFusion == InitFusion /\ [][OmniVlmFusion]_vars

(***************************************************************************)
(* SpecText: apply_vlm_operations under one merge over index lists of up   *)
(* to MaxIdxLen + 1 indices, without target_text, with an empty one and    *)
(* with "Buy", over raw components of every text of MergeTextsIn.          *)
(***************************************************************************)
MergeTextsIn == {T_empty, T_dollar, T_199}

TextIndexLists == UNION {[1..n -> 0..NumRaw] : n \in 1..(MaxIdxLen + 1)}

TextOperations ==
    {<<[action |-> "merge", indices |-> l, reason |-> "r"]>> : l \in TextIndexLists}
    \cup {<<[action |-> "merge", indices |-> l, reason |-> "m", target_text |-> t]>> :
             l \in TextIndexLists, t \in {T_empty, T_buy}}

InitText ==
    /\ \E t \in [1..NumRaw -> MergeTextsIn] :
          omni_components = [p \in 1..NumRaw |-> OcrComp(p, t[p])]
    /\ operations \in TextOperations
    /\ Idle

SpecText == InitText /\ [][ApplyVlmOperations]_vars

(***************************************************************************)
(* SpecCall: one call of call_vlm_for_semantic_filter under every sequence *)
(* of outcomes of its requests.  SpecCallFair adds that the loop, once     *)
(* entered, runs on: nothing in it waits for anything but a bounded sleep  *)
(* and a request with a timeout.                                           *)
(***************************************************************************)
Statuses == {200, 404, 429, 500, 503}

Outcomes ==
    {[kind |-> "response", status |-> 200, body |-> b] :
        b \in {"json", "garbage", "no_choices"}}
    \cup {[kind |-> "response", status |-> st, body |-> "garbage"] :
             st \in Statuses \ {200}}
    \cup {[kind |-> "network_error"], [kind |-> "request_error"]}

InitCall ==
    /\ omni_components = <<>>
    /\ filtered_result = [page_analysis |-> "none"]
    /\ image_size = [width |-> 0, height |-> 0]
    /\ stage2_raises = "none"
    /\ operations = <<>>
    /\ final_components = <<>>
    /\ merge_log = <<>>
    /\ fix_input = <<>>
    /\ ui_json = [componentCount |-> 0]
    /\ pc = "start"
    /\ attempt = 0
    /\ requests_sent = <<>>
    /\ call_state = "calling"

\* One pass of the loop `for attempt in range(max_retries)`, the extra request
\* of its last pass included, and the raise of line 548 after the last pass.
Request ==
    /\ call_state = "calling"
    /\ attempt < max_retries
    /\ \E outcome \in Outcomes, extra \in Outcomes :
          LET verdict == AttemptVerdict(outcome, attempt)
              first == Append(requests_sent, Sent(attempt, wait_time(attempt), outcome))
          IN  /\ requests_sent' =
                    IF verdict = "extra"
                    THEN Append(first, Sent(attempt, last_wait, extra))
                    ELSE first
              /\ call_state' =
                    CASE verdict = "return" -> "returned"
                      [] verdict = "raise" -> "raised"
                      [] verdict = "extra" ->
                            (IF ExtraVerdict(extra) = "return" THEN "returned" ELSE "raised")
                      [] verdict = "next" ->
                            (IF attempt + 1 = max_retries THEN "raised" ELSE "calling")
    /\ attempt' = attempt + 1
    /\ UNCHANGED <<omni_components, operations, final_components, merge_log, fix_input, pc>>
    /\ UNCHANGED fusion_vars

SpecCall == InitCall /\ [][Request]_vars

SpecCallFair == SpecCall /\ WF_vars(Request)

(***************************************************************************)
(* SpecShort: validate_and_fix_text_assignments on final lists of fewer    *)
(* than 3 components (none, one, two), kept or merged, with every planner  *)
(* text of ValTexts over every OCR text of OcrTextsIn.                     *)
(***************************************************************************)
ShortLengths == 0..2

InitShort ==
    /\ \E n \in ShortLengths :
          /\ \E ocr \in [1..n -> OcrTextsIn] :
                omni_components = [p \in 1..n |-> OcrComp(p, ocr[p])]
          /\ \E vlm \in [1..n -> ValTexts], m \in 0..n :
                final_components = [p \in 1..n |-> PlannedComp(p, vlm[p], p <= m)]
    /\ Planned

SpecShort == InitShort /\ [][ValidateAndFix]_vars

(***************************************************************************)
(* What the claims speak of, read off the inputs and the result.           *)
(***************************************************************************)
Applied == pc = "applied"

RawIndices == {omni_components[p].index : p \in DOMAIN omni_components}

RawOf(i) == CHOOSE c \in Range(omni_components) : c.index = i

FinalPos == DOMAIN final_components

IsMerged(c) == "source_indices" \in DOMAIN c

IsKept(c) == "original_index" \in DOMAIN c

\* The four groups of the partition, as the result and the log show them.
MergedIndices ==
    UNION {Range(final_components[p].source_indices) \cap RawIndices :
              p \in {q \in FinalPos : IsMerged(final_components[q])}}

DeletedIndices ==
    UNION {Range(merge_log[k].indices) \cap RawIndices :
              k \in {j \in DOMAIN merge_log : merge_log[j].action = "delete"}}

ImplicitIndices ==
    {final_components[p].original_index :
        p \in {q \in FinalPos : /\ IsKept(final_components[q])
                                /\ Get(final_components[q], "note", "") = DefaultKeepNote}}

KeptIndices ==
    {final_components[p].original_index :
        p \in {q \in FinalPos : /\ IsKept(final_components[q])
                                /\ Get(final_components[q], "note", "") # DefaultKeepNote}}

GroupsOf(i) ==
    {g \in {"merge", "delete", "keep", "implicit"} :
        \/ g = "merge" /\ i \in MergedIndices
        \/ g = "delete" /\ i \in DeletedIndices
        \/ g = "keep" /\ i \in KeptIndices
        \/ g = "implicit" /\ i \in ImplicitIndices}

\* The operations that consume indices, and the indices they name.
Consuming(op) == op.action \in {"merge", "delete", "keep"}

NamedBefore(k) ==
    UNION {Range(operations[j].indices) :
              j \in {h \in 1..(k - 1) : Consuming(operations[h])}}

NamedIndices == NamedBefore(Len(operations) + 1)

FirstNaming(i) ==
    Min({k \in DOMAIN operations :
            Consuming(operations[k]) /\ i \in Range(operations[k].indices)})

\* The smallest rectangle around the raw boxes of the indices in S, stated by
\* what it is: it touches a box on each side and reaches past none.
Encloses(b, S) ==
    /\ \A i \in S : /\ b.x <= RawOf(i).bounds.x
                    /\ b.y <= RawOf(i).bounds.y
                    /\ b.x + b.width >= RawOf(i).bounds.x + RawOf(i).bounds.width
                    /\ b.y + b.height >= RawOf(i).bounds.y + RawOf(i).bounds.height
    /\ \E i \in S : b.x = RawOf(i).bounds.x
    /\ \E i \in S : b.y = RawOf(i).bounds.y
    /\ \E i \in S : b.x + b.width = RawOf(i).bounds.x + RawOf(i).bounds.width
    /\ \E i \in S : b.y + b.height = RawOf(i).bounds.y + RawOf(i).bounds.height

SameContent(c, raw) ==
    /\ c.text = raw.text
    /\ c.bounds = raw.bounds
    /\ c.class = raw.class
    /\ c.clickable = raw.clickable

SortedByYX ==
    \A p \in FinalPos : \A q \in FinalPos :
        p < q =>
            \/ final_components[p].bounds.y < final_components[q].bounds.y
            \/ /\ final_components[p].bounds.y = final_components[q].bounds.y
               /\ final_components[p].bounds.x <= final_components[q].bounds.x

(***************************************************************************)
(* C1 (partition invariant): after apply_vlm_operations every raw index is *)
(* in exactly one of the four groups: consumed by a merge, consumed by a   *)
(* delete, kept by a keep operation, kept implicitly.  The code's merge    *)
(* and delete branches do not look at processed_indices, so this fails.    *)
(***************************************************************************)
C1_Partition ==
    Applied => \A i \in RawIndices : Cardinality(GroupsOf(i)) = 1

(***************************************************************************)
(* C2 (merge geometry): the bounds of every merged component are exactly   *)
(* the smallest rectangle around the boxes of its operation's resolvable   *)
(* source components.                                                      *)
(***************************************************************************)
C2_MergeGeometry ==
    Applied =>
        \A p \in FinalPos :
            IsMerged(final_components[p]) =>
                Encloses(final_components[p].bounds,
                         Range(final_components[p].source_indices) \cap RawIndices)

C2_Witness ==
    /\ Applied
    /\ \E p \in FinalPos :
          /\ IsMerged(final_components[p])
          /\ Cardinality(Range(final_components[p].source_indices) \cap RawIndices) = 2
          /\ \A i \in Range(final_components[p].source_indices) \cap RawIndices :
                final_components[p].bounds # RawOf(i).bounds

(***************************************************************************)
(* C3 (identity on empty edits): with no operation the result holds the    *)
(* raw components, each once, with text, bounds and class as they were,    *)
(* in (y, x) order.                                                        *)
(***************************************************************************)
C3_EmptyIdentity ==
    (Applied /\ operations = <<>>) =>
        /\ Len(final_components) = Len(omni_components)
        /\ \A i \in RawIndices :
              \E p \in FinalPos :
                  /\ Get(final_components[p], "original_index", -1) = i
                  /\ SameContent(final_components[p], RawOf(i))
        /\ SortedByYX

C3_Witness ==
    /\ Applied
    /\ operations = <<>>
    /\ \E p \in FinalPos : final_components[p].original_index # p - 1

(***************************************************************************)
(* C4 (reading order): the result is sorted by (y, x) ascending and the    *)
(* component at position i carries index i.                                *)
(***************************************************************************)
C4_SortedAndIndexed ==
    Applied =>
        /\ SortedByYX
        /\ \A p \in FinalPos : final_components[p].index = p - 1

C4_Witness ==
    /\ Applied
    /\ Len(final_components) >= 2
    /\ \E k \in DOMAIN merge_log : \E p \in FinalPos :
          /\ merge_log[k].action = "merge"
          /\ IsMerged(final_components[p])
          /\ final_components[p].source_indices = merge_log[k].from
          /\ Len(merge_log) = 1
          /\ merge_log[k].to # p - 1

(***************************************************************************)
(* C5 (implicit keep): a raw index that no merge, delete or keep names is  *)
(* in the result exactly once, with the raw text, bounds and class, its    *)
(* original_index and the note of a default keep.                          *)
(***************************************************************************)
C5_ImplicitKeep ==
    Applied =>
        \A i \in RawIndices \ NamedIndices :
            /\ Cardinality({p \in FinalPos :
                              Get(final_components[p], "original_index", -1) = i}) = 1
            /\ \A p \in FinalPos :
                  Get(final_components[p], "original_index", -1) = i =>
                      /\ SameContent(final_components[p], RawOf(i))
                      /\ Get(final_components[p], "note", "") = DefaultKeepNote

C5_Witness ==
    /\ Applied
    /\ Len(operations) = MaxOps
    /\ \E i \in RawIndices : i \notin NamedIndices
    /\ \E i \in RawIndices : i \in NamedIndices

(***************************************************************************)
(* C6 (first operation wins): an index is consumed by the first operation  *)
(* that names it.  So a merge is built from the resolvable indices that no *)
(* earlier operation named, and an index whose first operation is a delete *)
(* is nowhere in the result.  The code's merge takes every resolvable      *)
(* index, consumed or not, so this fails.                                  *)
(***************************************************************************)
FreshOf(k) == (Range(operations[k].indices) \cap RawIndices) \ NamedBefore(k)

C6_FirstOperationWins ==
    Applied =>
        /\ \A k \in DOMAIN operations :
              (operations[k].action = "merge" /\ FreshOf(k) # {}) =>
                  \E p \in FinalPos :
                      /\ IsMerged(final_components[p])
                      /\ final_components[p].source_indices = operations[k].indices
                      /\ Encloses(final_components[p].bounds, FreshOf(k))
        /\ \A i \in RawIndices \cap NamedIndices :
              operations[FirstNaming(i)].action = "delete" =>
                  /\ \A p \in FinalPos :
                        Get(final_components[p], "original_index", -1) # i
                  /\ \A p \in FinalPos :
                        IsMerged(final_components[p]) =>
                            \/ Range(final_components[p].source_indices)
                                   \cap RawIndices = {i}
                            \/ Encloses(final_components[p].bounds,
                                        (Range(final_components[p].source_indices)
                                            \cap RawIndices) \ {i})

(***************************************************************************)
(* C10 (end to end): "$", "199", icon, "Buy" under merge([0,1], "Label")   *)
(* give three components: a Label around boxes 0 and 1 with text "$ 199",  *)
(* the icon and "Buy" as they were, in (y, x) order, indexed 0, 1, 2.      *)
(***************************************************************************)
T_dollar_199 == <<"$", " ", "1", "9", "9">>

C10_EndToEnd ==
    Applied =>
        /\ Len(final_components) = 3
        /\ \E p \in FinalPos :
              /\ final_components[p].class = "Label"
              /\ final_components[p].text = T_dollar_199
              /\ Encloses(final_components[p].bounds, {0, 1})
        /\ \E p \in FinalPos :
              /\ Get(final_components[p], "original_index", -1) = 2
              /\ SameContent(final_components[p], RawOf(2))
        /\ \E p \in FinalPos :
              /\ Get(final_components[p], "original_index", -1) = 3
              /\ SameContent(final_components[p], RawOf(3))
        /\ SortedByYX
        /\ \A p \in FinalPos : final_components[p].index = p - 1

C10_Witness ==
    /\ Applied
    /\ operations = E2EOperations
    /\ omni_components[1].text = T_dollar
    /\ omni_components[2].text = T_199
    /\ final_components[3].class = "Label"
    /\ final_components[3].bounds.width > omni_components[1].bounds.width
    /\ final_components[3].bounds.width > omni_components[2].bounds.width

(***************************************************************************)
(* What the alignment claims speak of: the token sets of the components as *)
(* they were handed to validate_and_fix_text_assignments.                  *)
(***************************************************************************)
Validated == pc = "validated"

InVn == NumsOf(VlmTexts(fix_input))

InOn == NumsOf(OcrTexts(fix_input, omni_by_index(omni_components)))

ConflictAtZero(p) ==
    /\ InVn[p] # {}
    /\ InOn[p] # {}
    /\ InVn[p] \cap InOn[p] = {}

TextsUnchanged ==
    /\ Len(final_components) = Len(fix_input)
    /\ \A p \in DOMAIN fix_input : final_components[p].text = fix_input[p].text

AllShifts == {0, 1, -1, 2, -2}

ChosenShift == best_shift(InVn, InOn)

Window ==
    IF Len(fix_input) < 3 \/ ChosenShift = 0 \/ Conflicts(InVn, InOn) = {} THEN {}
    ELSE range_start(InVn, InOn, ChosenShift)..range_end(InVn, InOn)

(***************************************************************************)
(* C7 (alignment no-op): with no component in conflict at shift 0 (both    *)
(* token sets non-empty and disjoint), every text comes back as it went    *)
(* in, whatever the other shifts score.                                    *)
(***************************************************************************)
C7_NoConflictNoChange ==
    (Validated /\ \A p \in DOMAIN fix_input : ~ConflictAtZero(p)) => TextsUnchanged

C7_Witness ==
    /\ Validated
    /\ \A p \in DOMAIN fix_input : ~ConflictAtZero(p)
    /\ score_shift(InVn, InOn, 1) > score_shift(InVn, InOn, 0)
    /\ \E p \in DOMAIN fix_input : fix_input[p].text # omni_components[p].text

(***************************************************************************)
(* C8 (ambiguous shift): when no shift of 0, 1, -1, 2, -2 scores above     *)
(* zero, every text is left as it was.  The code takes the best score even *)
(* when it is negative, so this fails.                                     *)
(***************************************************************************)
C8_NoPositiveScoreNoChange ==
    (Validated /\ \A s \in AllShifts : score_shift(InVn, InOn, s) <= 0) => TextsUnchanged

(***************************************************************************)
(* C9 (alignment correction), as claimed: with the texts shifted by one    *)
(* and anchors at three or more positions, a shift of magnitude 1 is       *)
(* chosen, every component of the window gets the text that belongs there  *)
(* and every component outside the window is as it was.                    *)
(***************************************************************************)
Truth(p) == omni_components[p].text

AnchorPositions == {p \in DOMAIN omni_components : extract_nums(Truth(p)) # {}}

C9_ShiftCorrected ==
    (Validated /\ Cardinality(AnchorPositions) >= 3) =>
        /\ Abs(ChosenShift) = 1
        /\ \A p \in Window : final_components[p].text = Truth(p)
        /\ \A p \in DOMAIN fix_input \ Window : final_components[p] = fix_input[p]

(***************************************************************************)
(* C9 as amended: the anchors of different positions share no token, and   *)
(* the first component of the window, whose text comes from its own OCR    *)
(* text, keeps its text and is flagged when that OCR text is blank.        *)
(***************************************************************************)
DistinctAnchors ==
    \A p \in AnchorPositions : \A q \in AnchorPositions :
        p # q => extract_nums(Truth(p)) \cap extract_nums(Truth(q)) = {}

C9_ShiftCorrectedAmended ==
    (Validated /\ Cardinality(AnchorPositions) >= 3 /\ DistinctAnchors) =>
        /\ ChosenShift = 1
        /\ \A p \in Window :
              IF p = Min(Window) /\ IsBlank(Truth(p))
              THEN /\ final_components[p].text = fix_input[p].text
                   /\ Get(final_components[p], "_text_unverified", FALSE)
              ELSE final_components[p].text = Truth(p)
        /\ \A p \in DOMAIN fix_input \ Window : final_components[p] = fix_input[p]

C9_Witness ==
    /\ Validated
    /\ Cardinality(AnchorPositions) >= 3
    /\ DistinctAnchors
    /\ Cardinality(Window) >= 3
    /\ \A p \in Window : fix_input[p].text # Truth(p)
    /\ \A p \in Window : final_components[p].text = Truth(p)

(***************************************************************************)
(* What the claims on omni_vlm_fusion and fix_component_bounds speak of.   *)
(***************************************************************************)
Returned == pc = "returned"

\* Stage 2 raises: the planner call itself, or a step on the path taken.
Stage2Fails ==
    \/ stage2_raises \in {"call", "validate"}
    \/ stage2_raises = "apply" /\ "operations" \in DOMAIN filtered_result
    \/ stage2_raises = "fix_bounds" /\ "operations" \notin DOMAIN filtered_result

Fixed == pc = "fixed"

Planned1 == filtered_result.components[1]

Fixed1 == final_components[1]

PlanBounds == Get(Planned1, "bounds", EmptyDict)

PlanText == Get(Planned1, "text", <<>>)

PlanSources == Range(Get(Planned1, "source_indices", <<>>)) \cap RawIndices

PlanInvalid ==
    LET x == Get(PlanBounds, "x", 0)
        y == Get(PlanBounds, "y", 0)
        w == Get(PlanBounds, "width", 0)
        h == Get(PlanBounds, "height", 0)
    IN  \/ 10 * (x + w) > 11 * image_size.width
        \/ 10 * (y + h) > 11 * image_size.height
        \/ w > image_size.width
        \/ h > image_size.height

RawWithSameText ==
    {p \in DOMAIN omni_components : omni_components[p].text = PlanText}

RawWithSubText ==
    {p \in DOMAIN omni_components :
        /\ omni_components[p].text # <<>>
        /\ \/ IsSubstring(omni_components[p].text, PlanText)
           \/ IsSubstring(PlanText, omni_components[p].text)}

ScaleApplies ==
    /\ Get(PlanBounds, "width", 0) > 0
    /\ Get(PlanBounds, "x", 0) + Get(PlanBounds, "width", 0) <= 800

(***************************************************************************)
(* C11: when Stage 2 of omni_vlm_fusion raises (the planner call, or any   *)
(* later step), omni_vlm_fusion still returns, and the result holds the    *)
(* raw components as they were handed in, all of them in raw order, an     *)
(* empty merge log, and final_count equal to omni_raw_count.               *)
(***************************************************************************)
C11_FallbackToRaw ==
    [][(pc = "start" /\ Stage2Fails) =>
          /\ pc' = "returned"
          /\ ui_json'.components = omni_components
          /\ ui_json'.metadata.processing.merge_log = <<>>
          /\ ui_json'.metadata.processing.final_count = Len(omni_components)
          /\ ui_json'.metadata.processing.final_count =
                ui_json'.metadata.processing.omni_raw_count]_vars

C11_Witness ==
    /\ Returned
    /\ stage2_raises = "apply"
    /\ "operations" \in DOMAIN filtered_result
    /\ filtered_result.operations # <<>>
    /\ Len(ui_json.components) = NumRaw
    /\ ui_json.metadata.processing.merge_log = <<>>

(***************************************************************************)
(* C12: on every path of omni_vlm_fusion the returned components are in    *)
(* reading order, ascending by (bounds.y, bounds.x), carry the indices     *)
(* 0..N-1 of their positions, and componentCount is their number.  The     *)
(* path of a planner answering with components never sorts, so this fails. *)
(***************************************************************************)
C12_ResultInReadingOrder ==
    Returned =>
        LET cs == ui_json.components
        IN  /\ \A p \in DOMAIN cs : \A q \in DOMAIN cs :
                  p < q =>
                      \/ cs[p].bounds.y < cs[q].bounds.y
                      \/ /\ cs[p].bounds.y = cs[q].bounds.y
                         /\ cs[p].bounds.x <= cs[q].bounds.x
            /\ \A p \in DOMAIN cs : cs[p].index = p - 1
            /\ ui_json.componentCount = Len(cs)

(***************************************************************************)
(* C13: a planner component without usable source_indices, with invalid    *)
(* coordinates, matched by no raw text and out of reach of the 768-width   *)
(* scaling keeps its coordinates and gets _bounds_source = "unverified".   *)
(* The code sets no such field, so this fails.                             *)
(***************************************************************************)
C13_UnrecoverableFlagged ==
    (/\ Fixed
     /\ PlanSources = {}
     /\ PlanInvalid
     /\ PlanText = <<>> \/ RawWithSubText = {}
     /\ ~ScaleApplies)
    => /\ Fixed1.bounds = PlanBounds
       /\ Get(Fixed1, "_bounds_source", "") = "unverified"

(***************************************************************************)
(* C14, as stated: every planner component with a non-empty source_indices *)
(* list gets the smallest rectangle around the raw boxes of those indices. *)
(* It fails for a list none of whose indices names a raw component.        *)
(***************************************************************************)
C14_SourcesDecideBounds ==
    (Fixed /\ Get(Planned1, "source_indices", <<>>) # <<>>)
    => Encloses(Fixed1.bounds, PlanSources)

(***************************************************************************)
(* C14, amended: every planner component whose source_indices name at      *)
(* least one raw component gets the smallest rectangle around the raw      *)
(* boxes of the indices that name one, whatever coordinates, valid or not, *)
(* the planner supplied; nothing else of the component changes.            *)
(***************************************************************************)
C14_SourcesDecideBoundsAmended ==
    (Fixed /\ PlanSources # {})
    => /\ Encloses(Fixed1.bounds, PlanSources)
       /\ Fixed1 = Put(Planned1, "bounds", Fixed1.bounds)

C14_Witness ==
    /\ Fixed
    /\ Get(Planned1, "source_indices", <<>>) = <<0, 2>>
    /\ ~PlanInvalid
    /\ Fixed1.bounds = [x |-> 0, y |-> 0, width |-> 1, height |-> 3]
    /\ Fixed1.bounds # PlanBounds

(***************************************************************************)
(* C20: for a planner component left to recovery (no usable                *)
(* source_indices) with invalid coordinates and non-empty text: a raw      *)
(* component with exactly the same text is preferred to one matching by    *)
(* substring, the first match in raw order is taken, its bounds are        *)
(* adopted as they are, and the 768-width scaling is tried only when no    *)
(* raw component matches by text.                                          *)
(***************************************************************************)
C20_RecoveryOrder ==
    (Fixed /\ PlanSources = {} /\ PlanInvalid /\ PlanText # <<>>)
    => /\ RawWithSameText # {} =>
             /\ Fixed1.bounds = omni_components[Min(RawWithSameText)].bounds
             /\ Fixed1._bounds_source = "matched_from_omni"
       /\ (RawWithSameText = {} /\ RawWithSubText # {}) =>
             /\ Fixed1.bounds = omni_components[Min(RawWithSubText)].bounds
             /\ Fixed1._bounds_source = "matched_from_omni"
       /\ Get(Fixed1, "_bounds_source", "") = "scaled_from_768" =>
             RawWithSubText = {} /\ ScaleApplies
       /\ (RawWithSubText = {} /\ ScaleApplies) =>
             Get(Fixed1, "_bounds_source", "") = "scaled_from_768"

C20_Witness ==
    /\ Fixed
    /\ "source_indices" \notin DOMAIN Planned1
    /\ PlanInvalid
    /\ PlanText = T_199
    /\ omni_components[1].text = T_1990_12
    /\ omni_components[2].text = T_199
    /\ Fixed1.bounds = omni_components[2].bounds

(***************************************************************************)
(* What the claims on the steps of the validator speak of.  The score of a *)
(* shift is counted here from the token sets of the input.                 *)
(***************************************************************************)
ScoredPairs(s) ==
    {i \in DOMAIN InVn : i + s \in DOMAIN InOn /\ InVn[i] # {} /\ InOn[i + s] # {}}

ShiftScore(s) ==
    Cardinality({i \in ScoredPairs(s) : InVn[i] \cap InOn[i + s] # {}})
    - Cardinality({i \in ScoredPairs(s) : InVn[i] \cap InOn[i + s] = {}})

NonZeroShifts == AllShifts \ {0}

ConflictSet == {p \in DOMAIN fix_input : ConflictAtZero(p)}

ConfirmedAtZero(p) == InVn[p] # {} /\ InOn[p] # {} /\ InVn[p] \cap InOn[p] # {}

TextChanged(p) == final_components[p].text # fix_input[p].text

(***************************************************************************)
(* C15: a non-zero shift is applied only when its score is strictly above  *)
(* the score of shift 0 and is the highest of the five candidates; when no *)
(* non-zero shift scores above shift 0 (the best of them merely ties), the *)
(* components come back as they went in.                                   *)
(***************************************************************************)
C15_StrictlyBetterShift ==
    Validated =>
        /\ final_components # fix_input =>
              \E s \in NonZeroShifts :
                  /\ ShiftScore(s) > ShiftScore(0)
                  /\ \A t \in AllShifts : ShiftScore(s) >= ShiftScore(t)
                  /\ \A p \in DOMAIN final_components :
                        "_text_fix" \in DOMAIN final_components[p] =>
                            final_components[p]._text_fix = ShiftTag(s)
        /\ (\A s \in NonZeroShifts : ShiftScore(s) <= ShiftScore(0)) =>
              final_components = fix_input

C15_Witness ==
    /\ Validated
    /\ ConflictSet # {}
    /\ \E s \in NonZeroShifts : ShiftScore(s) = ShiftScore(0)
    /\ \A s \in NonZeroShifts : ShiftScore(s) <= ShiftScore(0)
    /\ final_components = fix_input

(***************************************************************************)
(* C16: under an applied shift s, the text at position p of the window is  *)
(* the text position p - s held when the run began, for every p with       *)
(* p - s inside the window.                                                *)
(***************************************************************************)
C16_RotationFromSnapshot ==
    Validated =>
        \A p \in Window :
            (p - ChosenShift) \in Window =>
                final_components[p].text = fix_input[p - ChosenShift].text

C16_Witness ==
    /\ Validated
    /\ ChosenShift = 1
    /\ Window = 1..3
    /\ fix_input[1].text # fix_input[2].text
    /\ fix_input[2].text # fix_input[3].text
    /\ final_components[2].text = fix_input[1].text
    /\ final_components[3].text = fix_input[2].text

(***************************************************************************)
(* C17: a window position p whose source p - s is outside the window gets  *)
(* the OCR text of its own raw component when that is not blank; when it   *)
(* is blank the text stays and the component is marked _text_unverified.   *)
(* (Component p of these inputs is built from raw component p alone.)      *)
(***************************************************************************)
C17_EdgeFallsBackToOcr ==
    Validated =>
        \A p \in Window :
            (p - ChosenShift) \notin Window =>
                IF IsBlank(Truth(p))
                THEN /\ final_components[p].text = fix_input[p].text
                     /\ Get(final_components[p], "_text_unverified", FALSE) = TRUE
                ELSE final_components[p].text = Truth(p)

C17_Witness ==
    /\ Validated
    /\ \E p \in Window :
          /\ (p - ChosenShift) \notin Window
          /\ IsBlank(Truth(p))
          /\ ~IsBlank(fix_input[p].text)
          /\ final_components[p].text = fix_input[p].text
          /\ Get(final_components[p], "_text_unverified", FALSE) = TRUE
    /\ \E p \in Window :
          /\ (p - ChosenShift) \notin Window
          /\ ~IsBlank(Truth(p))
          /\ fix_input[p].text # Truth(p)
          /\ final_components[p].text = Truth(p)

(***************************************************************************)
(* C18, as stated: the window of an applied shift ends at the highest      *)
(* conflicting index and starts at the lowest one extended backward over   *)
(* every preceding index up to index 0 or up to the first index with       *)
(* confirmed alignment at shift 0.  The code stops after 2 * |s| steps.    *)
(***************************************************************************)
StartFrom(first) ==
    Min({q \in first..Min(ConflictSet) :
            \A r \in q..(Min(ConflictSet) - 1) : ~ConfirmedAtZero(r)})

C18_WindowExtent ==
    (Validated /\ Window # {}) =>
        /\ Max(Window) = Max(ConflictSet)
        /\ Min(Window) = StartFrom(1)

(***************************************************************************)
(* C18, amended: the backward extension covers at most 2 * |s| preceding   *)
(* indices, and stops earlier at index 0 or at the first preceding index   *)
(* with confirmed alignment at shift 0.                                    *)
(***************************************************************************)
C18_WindowExtentAmended ==
    (Validated /\ Window # {}) =>
        /\ Max(Window) = Max(ConflictSet)
        /\ Min(Window) =
              StartFrom(Max({1, Min(ConflictSet) - 2 * Abs(ChosenShift)}))

C18_Witness ==
    /\ Validated
    /\ Window # {}
    /\ Min(Window) = Min(ConflictSet) - 2
    /\ Min(Window) > StartFrom(1)

(***************************************************************************)
(* C19: after one run a component carries _text_fix and _text_before_fix   *)
(* exactly when the run changed its text, _text_before_fix then being the  *)
(* text before the run; a component outside the window is not modified.    *)
(***************************************************************************)
C19_FixesAreLogged ==
    Validated =>
        \A p \in DOMAIN fix_input :
            /\ "_text_fix" \in DOMAIN final_components[p] <=> TextChanged(p)
            /\ "_text_before_fix" \in DOMAIN final_components[p] <=> TextChanged(p)
            /\ TextChanged(p) =>
                  final_components[p]._text_before_fix = fix_input[p].text
            /\ p \notin Window => final_components[p] = fix_input[p]

C19_Witness ==
    /\ Validated
    /\ \E p \in Window :
          /\ TextChanged(p)
          /\ final_components[p]._text_before_fix = fix_input[p].text
    /\ \E p \in Window :
          /\ ~TextChanged(p)
          /\ "_text_fix" \notin DOMAIN final_components[p]
    /\ \E p \in DOMAIN fix_input : p \notin Window

(***************************************************************************)
(* C21, as stated: a planner component without source_indices whose box    *)
(* stays within the image enlarged by 10% (x + width <= 1.1 * image width  *)
(* and y + height <= 1.1 * image height) keeps its bounds and is not       *)
(* recovered.  It fails for a box wider than the image itself.             *)
(***************************************************************************)
WithinTolerance ==
    /\ 10 * (Get(PlanBounds, "x", 0) + Get(PlanBounds, "width", 0))
          <= 11 * image_size.width
    /\ 10 * (Get(PlanBounds, "y", 0) + Get(PlanBounds, "height", 0))
          <= 11 * image_size.height

C21_WithinToleranceIsValid ==
    (Fixed /\ "source_indices" \notin DOMAIN Planned1 /\ WithinTolerance)
    => Fixed1 = Planned1

(***************************************************************************)
(* C21, amended: the box must also be no wider and no taller than the      *)
(* image (width <= image width, height <= image height).                   *)
(***************************************************************************)
C21_WithinToleranceIsValidAmended ==
    (/\ Fixed
     /\ "source_indices" \notin DOMAIN Planned1
     /\ WithinTolerance
     /\ Get(PlanBounds, "width", 0) <= image_size.width
     /\ Get(PlanBounds, "height", 0) <= image_size.height)
    => Fixed1 = Planned1

C21_Witness ==
    /\ Fixed
    /\ "source_indices" \notin DOMAIN Planned1
    /\ Get(PlanBounds, "x", 0) + Get(PlanBounds, "width", 0) > image_size.width
    /\ Get(PlanBounds, "width", 0) <= image_size.width
    /\ Get(PlanBounds, "height", 0) <= image_size.height
    /\ WithinTolerance
    /\ PlanText = T_199
    /\ RawWithSameText # {}
    /\ Fixed1 = Planned1

(***************************************************************************)
(* What the claims on merges speak of: the text a merge is to carry, put   *)
(* together index by index in the order the operation lists them.          *)
(***************************************************************************)
RECURSIVE TextsInOrder(_)
TextsInOrder(indices) ==
    IF indices = <<>> THEN <<>>
    ELSE LET i == Head(indices)
             t == IF i \in RawIndices THEN RawOf(i).text ELSE <<>>
             rest == TextsInOrder(Tail(indices))
         IN  IF t = <<>> THEN rest
             ELSE IF rest = <<>> THEN t
             ELSE t \o <<" ">> \o rest

IsMergeOp(op) == op.action = "merge" /\ op.indices # <<>>

Resolvable(op) == Range(op.indices) \cap RawIndices

\* The merged components a merge operation has produced.
MergedBy(op) ==
    {p \in FinalPos :
        /\ IsMerged(final_components[p])
        /\ final_components[p].source_indices = op.indices
        /\ final_components[p].note = Get(op, "reason", "")}

LogNames(op) ==
    \E j \in DOMAIN merge_log :
        Get(merge_log[j], "from", Get(merge_log[j], "indices", <<>>)) = op.indices

Without(ops, k) == [j \in 1..(Len(ops) - 1) |-> IF j < k THEN ops[j] ELSE ops[j + 1]]

(***************************************************************************)
(* C22: a merge none of whose indices is a raw index adds no component,    *)
(* leaves the other operations to act as they would without it, and is     *)
(* recorded in the operation log; a merge with some unresolvable indices   *)
(* takes its box and text from the resolvable ones.  The code skips the    *)
(* empty merge without a log entry, so this fails.                         *)
(***************************************************************************)
C22_UnresolvableMerge ==
    Applied =>
        \A k \in DOMAIN operations :
            IsMergeOp(operations[k]) =>
                IF Resolvable(operations[k]) = {}
                THEN /\ MergedBy(operations[k]) = {}
                     /\ final_components =
                           apply_vlm_operations(Without(operations, k),
                                                omni_components).final_components
                     /\ LogNames(operations[k])
                ELSE \A p \in MergedBy(operations[k]) :
                        /\ Encloses(final_components[p].bounds, Resolvable(operations[k]))
                        /\ "target_text" \notin DOMAIN operations[k] =>
                              final_components[p].text =
                                  TextsInOrder(operations[k].indices)

(***************************************************************************)
(* C23: the text of a merged component is the operation's target_text      *)
(* whenever it supplies one (an empty one too); otherwise the non-empty    *)
(* texts of the resolved source components, one space between them, in     *)
(* the order the operation lists their indices.                            *)
(***************************************************************************)
C23_MergedText ==
    Applied =>
        \A k \in DOMAIN operations :
            IsMergeOp(operations[k]) =>
                /\ Resolvable(operations[k]) # {} => MergedBy(operations[k]) # {}
                /\ \A p \in MergedBy(operations[k]) :
                      final_components[p].text =
                          IF "target_text" \in DOMAIN operations[k]
                          THEN operations[k].target_text
                          ELSE TextsInOrder(operations[k].indices)

C23_Witness ==
    /\ Applied
    /\ "target_text" \notin DOMAIN operations[1]
    /\ operations[1].indices = <<2, 1, 0>>
    /\ omni_components[1].text = T_199
    /\ omni_components[2].text = T_empty
    /\ omni_components[3].text = T_dollar
    /\ \E p \in FinalPos : final_components[p].text = <<"$", " ", "1", "9", "9">>

(***************************************************************************)
(* C27: the index a merge entry of the log records (field 'to') is the     *)
(* index its merged component carries in the returned list.  The entry     *)
(* holds the place of the component before the sort, so this fails.        *)
(***************************************************************************)
C27_LogPointsAtMerged ==
    Applied =>
        \A j \in DOMAIN merge_log :
            merge_log[j].action = "merge" =>
                \E p \in FinalPos :
                    /\ IsMerged(final_components[p])
                    /\ final_components[p].source_indices = merge_log[j].from
                    /\ final_components[p].note = merge_log[j].reason
                    /\ final_components[p].index = merge_log[j].to

(***************************************************************************)
(* What the claims on the retry loop speak of.                             *)
(***************************************************************************)
CallEnded == call_state \in {"returned", "raised"}

RetryableStatuses == {429, 500, 502, 503, 504}

RetryableOutcome(o) ==
    \/ o.kind = "network_error"
    \/ o.kind = "response" /\ o.status \in RetryableStatuses

OtherErrorStatus(o) ==
    o.kind = "response" /\ o.status >= 400 /\ o.status \notin RetryableStatuses

\* The requests of the loop itself, and the one sent after its last pass.
IsExtra(k) == k > 1 /\ requests_sent[k].attempt = requests_sent[k - 1].attempt

LoopRequests == {k \in DOMAIN requests_sent : ~IsExtra(k)}

ExtraRequests == {k \in DOMAIN requests_sent : IsExtra(k)}

(***************************************************************************)
(* C24: a request is sent again only after a response with a status of     *)
(* 429, 500, 502, 503, 504 or after a network failure; a response with any *)
(* other error status ends the call with an error and no further request.  *)
(* The code goes on to the next attempt after a 404 as well, so this fails.*)
(***************************************************************************)
C24_RetryOnlyRetryable ==
    \A k \in DOMAIN requests_sent :
        /\ k < Len(requests_sent) => RetryableOutcome(requests_sent[k].outcome)
        /\ OtherErrorStatus(requests_sent[k].outcome) =>
              k = Len(requests_sent) /\ call_state = "raised"

(***************************************************************************)
(* C28: under every sequence of outcomes the call ends, by returning or by *)
(* raising, having sent at most max_retries requests and at most one more, *)
(* that one only after the last attempt failed with a network error.       *)
(***************************************************************************)
WithinBudget ==
    /\ Cardinality(LoopRequests) <= max_retries
    /\ Cardinality(ExtraRequests) <= 1
    /\ \A k \in ExtraRequests :
          /\ k = max_retries + 1
          /\ requests_sent[k - 1].attempt = max_retries - 1
          /\ requests_sent[k - 1].outcome.kind = "network_error"

C28_CallTerminates == <>(CallEnded /\ WithinBudget)

C28_Witness ==
    /\ call_state = "returned"
    /\ Len(requests_sent) = max_retries + 1
    /\ requests_sent[1].outcome.kind = "response"
    /\ requests_sent[1].outcome.status = 429
    /\ requests_sent[2].outcome.kind = "response"
    /\ requests_sent[2].outcome.status = 404
    /\ requests_sent[3].outcome.kind = "response"
    /\ requests_sent[3].outcome.body = "garbage"
    /\ requests_sent[4].outcome.kind = "request_error"
    /\ requests_sent[max_retries].outcome.kind = "network_error"

(***************************************************************************)
(* C25: no stage of omni_vlm_fusion changes a field of a component of the  *)
(* raw list it was given; the final reindexing, which on the fallback path *)
(* writes to the raw components themselves, writes the index each already  *)
(* has.                                                                    *)
(***************************************************************************)
C25_RawUntouched == [][omni_components' = omni_components]_vars

C25_Witness ==
    /\ Returned
    /\ stage2_raises = "call"
    /\ ui_json.components = omni_components
    /\ \A p \in DOMAIN omni_components : omni_components[p].index = p - 1

(***************************************************************************)
(* C26: the validator changes neither the number nor the order of the      *)
(* components nor any field but text, _text_before_fix, _text_fix and      *)
(* _text_unverified (so index, class, bounds and source_indices stay), and *)
(* a list in reading order stays in reading order.                         *)
(***************************************************************************)
TextFields == {"text", "_text_before_fix", "_text_fix", "_text_unverified"}

SameButText(after, prior) ==
    /\ DOMAIN prior \subseteq DOMAIN after
    /\ DOMAIN after \ TextFields = DOMAIN prior \ TextFields
    /\ \A k \in DOMAIN prior \ TextFields : after[k] = prior[k]

C26_OnlyTextWritten ==
    Validated =>
        /\ Len(final_components) = Len(fix_input)
        /\ \A p \in DOMAIN fix_input : SameButText(final_components[p], fix_input[p])
        /\ SortedByYX

C26_Witness ==
    /\ Validated
    /\ \E p \in FinalPos :
          /\ "_text_fix" \in DOMAIN final_components[p]
          /\ IsMerged(final_components[p])
          /\ final_components[p].source_indices = fix_input[p].source_indices
          /\ final_components[p].bounds = fix_input[p].bounds
    /\ \E p \in FinalPos : "_text_unverified" \in DOMAIN final_components[p]

(***************************************************************************)
(* C29: a final list of fewer than 3 components comes back with no field   *)
(* changed, also when every component is in conflict at shift 0 and a      *)
(* non-zero shift scores higher.                                           *)
(***************************************************************************)
C29_ShortListUntouched ==
    (Validated /\ Len(fix_input) < 3) => final_components = fix_input

C29_Witness ==
    /\ Validated
    /\ Len(fix_input) = 2
    /\ \A p \in DOMAIN fix_input : ConflictAtZero(p)
    /\ \E s \in NonZeroShifts : ShiftScore(s) > ShiftScore(0)
    /\ final_components = fix_input

(***************************************************************************)
(* C30: every component the validator changes or flags under the chosen    *)
(* shift s lies between the lowest conflicting index less 2 * |s| (and not *)
(* below index 0) and the highest conflicting index.                       *)
(***************************************************************************)
Touched == {p \in DOMAIN fix_input : final_components[p] # fix_input[p]}

C30_WindowBounded ==
    (Validated /\ Touched # {}) =>
        /\ ConflictSet # {}
        /\ \A p \in Touched :
              /\ p >= Min(ConflictSet) - 2 * Abs(ChosenShift)
              /\ p >= 1
              /\ p <= Max(ConflictSet)

C30_Witness ==
    /\ Validated
    /\ ConflictSet # {}
    /\ Abs(ChosenShift) = 1
    /\ Min(ConflictSet) = 4
    /\ Max(ConflictSet) = 4
    /\ ~ConfirmedAtZero(1)
    /\ Touched = {2, 3, 4}

====
